---- MODULE Spec2Model ----
(***************************************************************************)
(* Model of autocrop/autocrop.py: the Cropper class, its constructor's     *)
(* validation, crop(), and the crop-geometry routines _expand_centered,    *)
(* _expand_portrait and _crop_positions.                                   *)
(*                                                                         *)
(* The module is compiled with `from __future__ import division`, so every *)
(* `/` is a true division.  Numbers that Python holds as floats are held   *)
(* here as exact fractions [n, d]; int() truncates toward zero.            *)
(***************************************************************************)
EXTENDS Integers, Sequences, FiniteSets, TLC

VARIABLES
    pc,        \* "new" | "failed" | "ready" | "done"
    cropper,   \* the Cropper instance (its attributes), once constructed
    inp,       \* the arguments of the operation in progress / last run
    out        \* what that operation produced (value or exception) and the
               \* locals it computed on the way

vars == <<pc, cropper, inp, out>>

(***************************************************************************)
(* Bounds of the model.                                                    *)
(***************************************************************************)
MaxImg == 4      \* image width and height range over 1..MaxImg
MaxFaces == 2    \* the detector returns at most MaxFaces boxes

(***************************************************************************)
(* Exact fractions.                                                        *)
(***************************************************************************)
RECURSIVE GCD(_, _)
GCD(a, b) == IF b = 0 THEN a ELSE GCD(b, a % b)

Abs(k) == IF k < 0 THEN -k ELSE k

Rat(n, d) ==
    LET s == IF d < 0 THEN -1 ELSE 1
        g == GCD(Abs(n), Abs(d))
    IN  [n |-> (s * n) \div g, d |-> (s * d) \div g]

I2R(k) == [n |-> k, d |-> 1]

RAdd(p, q) == Rat(p.n * q.d + q.n * p.d, p.d * q.d)
RSub(p, q) == Rat(p.n * q.d - q.n * p.d, p.d * q.d)
RMul(p, q) == Rat(p.n * q.n, p.d * q.d)
RDiv(p, q) == Rat(p.n * q.d, p.d * q.n)
RLt(p, q) == p.n * q.d < q.n * p.d
RLe(p, q) == p.n * q.d <= q.n * p.d
RMax(p, q) == IF RLt(p, q) THEN q ELSE p
RAbs(p) == [n |-> Abs(p.n), d |-> p.d]

\* Python's int(): truncation toward zero.
int(p) == IF p.n >= 0 THEN p.n \div p.d ELSE -((-p.n) \div p.d)

(***************************************************************************)
(* Python values that reach the constructor.                               *)
(***************************************************************************)
PyInt(k) == [t |-> "int", q |-> I2R(k)]
PyFloat(n, d) == [t |-> "float", q |-> Rat(n, d)]
PyNone == [t |-> "none"]
PyStr == [t |-> "str"]
PyDict(f) == [t |-> "dict", items |-> f]

IsNum(v) == v.t \in {"int", "float"}

Ok(v) == [ok |-> TRUE, v |-> v]
Raise(e) == [ok |-> FALSE, err |-> e]

\* check_positive_scalar: `num > 0` raises TypeError for a str or None (and
\* for a dict); a number that is not positive raises ValueError; otherwise
\* int(num) is returned, so a float in (0,1) comes back as 0.
check_positive_scalar(num) ==
    IF ~IsNum(num) THEN Raise("TypeError")
    ELSE IF num.q.n > 0 THEN Ok(int(num.q))
    ELSE Raise("ValueError")

valid_keys == {"pad_top", "pad_right", "pad_bottom", "pad_left"}

\* check_valid_pad_dict: the four conditions are all evaluated before the
\* test, so len(dic) raises TypeError for None or a number, dic.keys()
\* raises AttributeError for a str, and check_positive_scalar raises on the
\* first value that is not a positive number.
check_valid_pad_dict(dic) ==
    IF dic.t \in {"none", "int", "float"} THEN Raise("TypeError")
    ELSE IF dic.t = "str" THEN Raise("AttributeError")
    ELSE LET keys == DOMAIN dic.items
             checks == {check_positive_scalar(dic.items[k]) : k \in keys}
         IN  IF \E c \in checks : ~c.ok /\ c.err = "TypeError"
                 THEN Raise("TypeError")
             ELSE IF \E c \in checks : ~c.ok THEN Raise("ValueError")
             ELSE IF /\ Cardinality(keys) = 4
                     /\ keys = valid_keys
                     /\ \A c \in checks : c.v # 0
                 THEN Ok(dic)
             ELSE Raise("ValueError")

NoCropper == [constructed |-> FALSE]

\* Cropper.__init__(width, height, face_percent, padding, fix_gamma, portrait)
Cropper__init__(width, height, face_percent, padding, fix_gamma, portrait) ==
    LET h == check_positive_scalar(height)
        w == check_positive_scalar(width)
        fp == check_positive_scalar(face_percent)
        pad == IF padding.t = "int" THEN check_positive_scalar(padding)
               ELSE check_valid_pad_dict(padding)
    IN  IF ~h.ok THEN h
        ELSE IF ~w.ok THEN w
        ELSE IF ~IsNum(face_percent) THEN Raise("TypeError")
        ELSE IF RLt(I2R(100), face_percent.q) THEN Raise("ValueError")
        ELSE IF ~fp.ok THEN fp
        ELSE IF ~pad.ok THEN pad
        ELSE Ok([constructed |-> TRUE,
                 height |-> h.v,
                 width |-> w.v,
                 aspect_ratio |-> RDiv(width.q, height.q),
                 gamma |-> fix_gamma,
                 portrait |-> portrait,
                 face_percent |-> fp.v,
                 pad_top |-> IF padding.t = "int" THEN I2R(pad.v)
                             ELSE padding.items["pad_top"].q,
                 pad_right |-> IF padding.t = "int" THEN I2R(pad.v)
                               ELSE padding.items["pad_right"].q,
                 pad_bottom |-> IF padding.t = "int" THEN I2R(pad.v)
                                ELSE padding.items["pad_bottom"].q,
                 pad_left |-> IF padding.t = "int" THEN I2R(pad.v)
                              ELSE padding.items["pad_left"].q])

(***************************************************************************)
(* Geometry.                                                               *)
(***************************************************************************)

\* EYES_RATIO is imported from autocrop/constants.py.
EYES_RATIO == Rat(42, 100)

\* An optional argument: <<>> is None, <<k>> is the value k.
None == <<>>
Some(k) == <<k>>

\* Cropper._expand_centered(x, w, imgw, expected_width=None)
\* lo_fired / hi_fired record which overflow branch ran.
_expand_centered(self, x, w, imgw, expected_width) ==
    IF self.face_percent = 0 THEN Raise("ZeroDivisionError")
    ELSE
    LET i == int(Rat(w, 2))
        j == int(Rat(i, self.face_percent))
        center == x + i
        h1 == center - j
        h2 == center + j
        lo_fired == h1 < 0
        h1a == IF lo_fired THEN 0 ELSE h1
        h2a == IF lo_fired THEN 2 * center ELSE h2
        hi_fired == h2a > imgw
        h2b == IF hi_fired THEN imgw ELSE h2a
        h1b == IF hi_fired THEN 2 * center - imgw ELSE h1a
    IN  IF expected_width # None
        THEN LET half == int(Rat(expected_width[1], 2))
             IN  [ok |-> TRUE, lo |-> center - half, hi |-> center + half,
                  expectations_met |-> TRUE,
                  lo_fired |-> FALSE, hi_fired |-> FALSE]
        ELSE [ok |-> TRUE, lo |-> h1b, hi |-> h2b,
              expectations_met |-> ~lo_fired /\ ~hi_fired,
              lo_fired |-> lo_fired, hi_fired |-> hi_fired]

\* Cropper._expand_portrait(y, h, imgh, expected_height)
_expand_portrait(self, y, h, imgh, expected_height) ==
    LET eye_height == y + int(RMul(EYES_RATIO, I2R(h)))
        third == int(Rat(expected_height, 3))
        v1 == eye_height - 2 * third
        v2 == eye_height + third
        lo_fired == v1 < 0
        v1a == IF lo_fired THEN 0 ELSE v1
        v2a == IF lo_fired THEN int(Rat(3 * eye_height, 2)) ELSE v2
        hi_fired == v2a > imgh
        v2b == IF hi_fired THEN imgh ELSE v2a
        v1b == IF hi_fired THEN eye_height - 2 * (imgh - eye_height) ELSE v1a
    IN  [ok |-> TRUE, lo |-> v1b, hi |-> v2b,
         expectations_met |-> ~lo_fired /\ ~hi_fired,
         lo_fired |-> lo_fired, hi_fired |-> hi_fired]

(***************************************************************************)
(* _crop_positions reads four names that are neither parameters nor locals *)
(* nor attributes of self: padding (line 405), imgw (414), imgh (421) and  *)
(* aspect_ratio (435, 461, 469).  Python looks such names up in the        *)
(* module's global namespace when the line runs.  The module binds none of *)
(* them, so as imported the lookup of line 405 raises NameError.  A        *)
(* namespace value says what the lookups find at the time of the call:     *)
(*   "unbound"  the module as imported;                                    *)
(*   "truthy"   a caller has bound them, padding to a true value;          *)
(*   "falsy"    a caller has bound them, padding to a false value.         *)
(* When bound, imgw, imgh and aspect_ratio hold the call's img_width and   *)
(* img_height and self.aspect_ratio.                                       *)
(***************************************************************************)
Namespaces == {"unbound", "truthy", "falsy"}

\* Lines 448-451.
left_pad_ratio(self) == RDiv(self.pad_left, RAdd(self.pad_left, self.pad_right))
right_pad_ratio(self) == RDiv(self.pad_left, RAdd(self.pad_left, self.pad_right))
top_pad_ratio(self) == RDiv(self.pad_top, RAdd(self.pad_top, self.pad_bottom))
bottom_pad_ratio(self) == RDiv(self.pad_bottom, RAdd(self.pad_top, self.pad_bottom))

\* Lines 442-445: the raw edges, before the overflow correction.
raw_h1(self, x, xpad) ==
    RSub(I2R(x), RDiv(RMul(xpad, self.pad_left), RAdd(self.pad_left, self.pad_right)))
\* raw_h2 with the left weight in place of the right one.
raw_h2_left_weight(self, x, w, xpad) ==
    RAdd(I2R(x + w),
         RDiv(RMul(xpad, self.pad_left), RAdd(self.pad_left, self.pad_right)))
raw_h2(self, x, w, xpad) ==
    RAdd(I2R(x + w),
         RDiv(RMul(xpad, self.pad_right), RAdd(self.pad_left, self.pad_right)))
raw_v1(self, y, ypad) ==
    RSub(I2R(y), RDiv(RMul(ypad, self.pad_top), RAdd(self.pad_top, self.pad_bottom)))
raw_v2(self, y, h, ypad) ==
    RAdd(I2R(y + h),
         RDiv(RMul(ypad, self.pad_bottom), RAdd(self.pad_top, self.pad_bottom)))

\* Line 410.
tall(self) == self.width > self.height

\* Line 428-429: the assertion and the list returned, given the three
\* expansions made.
portrait_return(first, vert, second) ==
    LET use_face_percent == [w |-> second.expectations_met,
                             h |-> vert.expectations_met]
        locals == [mode |-> "portrait",
                   h1 |-> second.lo, h2 |-> second.hi,
                   v1 |-> vert.lo, v2 |-> vert.hi,
                   use_face_percent |-> use_face_percent,
                   rerun |-> ~vert.expectations_met,
                   h_overflow |-> ~first.expectations_met,
                   v_overflow |-> ~vert.expectations_met]
    IN  IF use_face_percent.w /\ use_face_percent.h
        THEN [ok |-> TRUE,
              pos |-> <<second.lo, second.hi, vert.lo, vert.hi>>] @@ locals
        ELSE [ok |-> FALSE, err |-> "AssertionError"] @@ locals

\* Lines 423-427: the horizontal pass again when the vertical one missed.
portrait_rerun(self, x, w, imgw, first, vert) ==
    portrait_return(first, vert,
        IF ~vert.expectations_met
        THEN LET expected_width == 0
             IN  _expand_centered(self, x, w, imgw, Some(expected_width))
        ELSE first)

\* Lines 415-422: the vertical pass, given the first horizontal one.
portrait_vertical(self, img_height, img_width, x, y, w, h, first) ==
    IF ~first.ok THEN [ok |-> FALSE, err |-> first.err, mode |-> "portrait"]
    ELSE portrait_rerun(self, x, w, img_width, first,
             _expand_portrait(self, y, h, img_height,
                 IF ~first.expectations_met
                 THEN int(RDiv(I2R(first.hi - first.lo), self.aspect_ratio))
                 ELSE int(RDiv(I2R(w), self.aspect_ratio))))

\* Lines 412-429, with imgw, imgh bound to img_width, img_height.
portrait_mode(self, img_height, img_width, x, y, w, h) ==
    portrait_vertical(self, img_height, img_width, x, y, w, h,
                      _expand_centered(self, x, w, img_width, None))

(***************************************************************************)
(* Lines 433-477 compute in floats.  Fractions reproduce them exactly      *)
(* except in the overflow correction: there an edge is moved by            *)
(* delta * ratio where delta was obtained as overshoot / ratio, and the    *)
(* float result can fall a hair short of the integer the exact arithmetic  *)
(* lands on, so that int() then truncates it to the integer one nearer to  *)
(* zero.  A rounding r is the set of returned edges (1..4) to which that   *)
(* happened; it can only happen to an edge that was moved and whose exact  *)
(* value is a nonzero integer.                                             *)
(***************************************************************************)
Exact == {}

on_grid(q, moved) == q.d = 1 /\ q.n # 0 /\ moved.n # 0

\* The outcome res of the exact arithmetic, as the floats give it under r.
float_rounded(res, r) ==
    IF r = Exact THEN res
    ELSE LET short(k) == IF k \notin r THEN res.pos[k]
                         ELSE IF res.pos[k] > 0 THEN res.pos[k] - 1
                         ELSE res.pos[k] + 1
         IN  [res EXCEPT !.pos = <<short(1), short(2), short(3), short(4)>>,
                         !.v1 = short(1), !.v2 = short(2),
                         !.h1 = short(3), !.h2 = short(4)]

\* The roundings that can occur in a run whose exact outcome is res.
CanRound(res) ==
    IF "on_grid" \in DOMAIN res
    THEN SUBSET { k \in 1..4 : res.on_grid[k] }
    ELSE {Exact}

zero == I2R(0)

\* Lines 434-439: xpad and ypad.
centering_pads(self, w, h) ==
    LET height_crop == Rat(h * 100, self.face_percent)
        width_crop == RMul(self.aspect_ratio, height_crop)
    IN  [x |-> RDiv(RSub(width_crop, I2R(w)), I2R(2)),
         y |-> RDiv(RSub(height_crop, I2R(h)), I2R(2))]

\* Lines 442-445.
raw_edges(self, x, y, w, h, pad) ==
    [h1 |-> raw_h1(self, x, pad.x), h2 |-> raw_h2(self, x, w, pad.x),
     v1 |-> raw_v1(self, y, pad.y), v2 |-> raw_v2(self, y, h, pad.y)]

\* `if over: delta = max(delta, by)`
raised(delta, over, by) == IF over THEN RMax(delta, by) ELSE delta

\* Lines 454-459: delta_h from the horizontal overshoot.
horizontal_delta(self, raw, img_width) ==
    raised(IF RLt(raw.h1, zero)
           THEN RDiv(RAbs(raw.h1), left_pad_ratio(self)) ELSE zero,
           RLt(I2R(img_width), raw.h2),
           RDiv(RSub(raw.h2, I2R(img_width)), right_pad_ratio(self)))

\* Lines 461-467: delta_v, given delta_h so far.
vertical_delta(self, raw, img_height, delta_h) ==
    raised(raised(IF RLe(delta_h, zero) THEN zero
                  ELSE RDiv(delta_h, self.aspect_ratio),
                  RLt(raw.v1, zero),
                  RDiv(RAbs(raw.v1), top_pad_ratio(self))),
           RLt(I2R(img_height), raw.v2),
           RDiv(RSub(raw.v2, I2R(img_height)), bottom_pad_ratio(self)))

\* Lines 472-475: how far each edge is moved inward.
moved_by(self, delta_h, delta_v) ==
    [left |-> RMul(delta_h, left_pad_ratio(self)),
     right |-> RMul(delta_h, right_pad_ratio(self)),
     top |-> RMul(delta_v, top_pad_ratio(self)),
     bottom |-> RMul(delta_v, bottom_pad_ratio(self))]

\* Lines 472-477: the edges adjusted and truncated.
centered_return(img_height, img_width, raw, delta_h, delta_v, moved) ==
    LET h1 == RAdd(raw.h1, moved.left)
        h2 == RSub(raw.h2, moved.right)
        v1 == RAdd(raw.v1, moved.top)
        v2 == RSub(raw.v2, moved.bottom)
    IN  [ok |-> TRUE, mode |-> "centered",
         pos |-> <<int(v1), int(v2), int(h1), int(h2)>>,
         h1 |-> int(h1), h2 |-> int(h2), v1 |-> int(v1), v2 |-> int(v2),
         on_grid |-> <<on_grid(v1, moved.top), on_grid(v2, moved.bottom),
                       on_grid(h1, moved.left), on_grid(h2, moved.right)>>,
         raw |-> raw,
         delta_h |-> delta_h, delta_v |-> delta_v, moved |-> moved,
         h_overflow |-> RLt(raw.h1, zero) \/ RLt(I2R(img_width), raw.h2),
         v_overflow |-> RLt(raw.v1, zero) \/ RLt(I2R(img_height), raw.v2)]

\* Lines 469-475, given the final delta_h and delta_v.
centered_adjust(self, img_height, img_width, raw, delta_h, delta_v) ==
    centered_return(img_height, img_width, raw, delta_h, delta_v,
                    moved_by(self, delta_h, delta_v))

\* Line 469, given delta_h of line 459 and delta_v of line 467.
centered_widen(self, img_height, img_width, raw, delta_h, delta_v) ==
    centered_adjust(self, img_height, img_width, raw,
                    RMax(delta_h, RMul(delta_v, self.aspect_ratio)), delta_v)

\* Lines 461-467, given delta_h of line 459.
centered_vertical(self, img_height, img_width, raw, delta_h) ==
    centered_widen(self, img_height, img_width, raw, delta_h,
                   vertical_delta(self, raw, img_height, delta_h))

\* Lines 453-477, given the raw edges.
centered_shrink(self, img_height, img_width, raw) ==
    centered_vertical(self, img_height, img_width, raw,
                      horizontal_delta(self, raw, img_width))

\* Lines 433-477, with aspect_ratio bound to self.aspect_ratio.
centered_mode(self, img_height, img_width, x, y, w, h) ==
    centered_shrink(self, img_height, img_width,
                    raw_edges(self, x, y, w, h, centering_pads(self, w, h)))

\* Cropper._crop_positions(img_height, img_width, x, y, w, h), run with the
\* global namespace g; the outcome of the exact arithmetic.
_crop_positions(self, g, img_height, img_width, x, y, w, h) ==
    IF g = "unbound"
        THEN [ok |-> FALSE, err |-> "NameError", mode |-> "none"]
    ELSE IF g = "truthy"
        \* _apply_padding is declared without self: the bound call passes one
        \* positional argument to a function that takes none.
        THEN [ok |-> FALSE, err |-> "TypeError", mode |-> "padded"]
    ELSE IF tall(self) /\ self.portrait
        THEN portrait_mode(self, img_height, img_width, x, y, w, h)
    ELSE IF self.face_percent = 0
        THEN [ok |-> FALSE, err |-> "ZeroDivisionError", mode |-> "centered"]
    ELSE centered_mode(self, img_height, img_width, x, y, w, h)

\* Python's slice bounds for a[i:j] on an axis of length n: a negative
\* index counts from the end, and both ends are clipped to 0..n.
slice_index(i, n) ==
    LET k == IF i < 0 THEN i + n ELSE i
    IN  IF k < 0 THEN 0 ELSE IF k > n THEN n ELSE k

\* biggest taking the first box instead of the last.
biggest_first(faces) == faces[1]
\* Line 226: the box handed to the geometry.
biggest(faces) == faces[Len(faces)]

Unreadable == [readable |-> FALSE]
Array(img_height, img_width) ==
    [readable |-> TRUE, img_height |-> img_height, img_width |-> img_width]

\* Lines 229-239: the slice taken at pos and the array returned.
crop_slice(self, image, args, pos) ==
    IF ~pos.ok THEN [ok |-> FALSE, err |-> pos.err, calls |-> <<args>>]
    ELSE
    LET r0 == slice_index(pos.pos[1], image.img_height)
        r1 == slice_index(pos.pos[2], image.img_height)
        c0 == slice_index(pos.pos[3], image.img_width)
        c1 == slice_index(pos.pos[4], image.img_width)
        grid == IF "on_grid" \in DOMAIN pos THEN pos.on_grid
                ELSE <<FALSE, FALSE, FALSE, FALSE>>
    IN  IF r1 <= r0 \/ c1 <= c0
        \* cv2.resize rejects an empty source array.
        THEN [ok |-> FALSE, err |-> "cv2.error", calls |-> <<args>>,
              on_grid |-> grid]
        ELSE [ok |-> TRUE, value |-> "array", calls |-> <<args>>,
              on_grid |-> grid,
              rows |-> <<r0, r1>>, cols |-> <<c0, c1>>,
              shape |-> <<self.height, self.width>>]

\* Lines 226-227: _crop_positions called on the box b.
crop_face(self, g, image, b, r) ==
    crop_slice(self, image,
               <<image.img_height, image.img_width, b[1], b[2], b[3], b[4]>>,
               float_rounded(_crop_positions(self, g, image.img_height,
                                             image.img_width,
                                             b[1], b[2], b[3], b[4]), r))

\* Cropper.crop(path_or_array): image is what open_file returned or the
\* array passed in, faces is what detectMultiScale returns for it.  calls
\* lists the invocations of _crop_positions, in order; r is the rounding of
\* the floats in that call.
crop(self, g, image, faces, r) ==
    IF ~image.readable
        THEN [ok |-> FALSE, err |-> "ImageReadError", calls |-> <<>>]
    ELSE IF Len(faces) = 0
        THEN [ok |-> TRUE, value |-> "None", calls |-> <<>>]
    ELSE crop_face(self, g, image, biggest(faces), r)

(***************************************************************************)
(* Inputs.                                                                 *)
(***************************************************************************)
MaxPad == 2      \* padding weights range over 1..MaxPad

Targets == {<<1, 1>>, <<1, 2>>, <<2, 1>>, <<4, 3>>}    \* <<width, height>>
FacePercents == {1, 50, 100}                           \* within (0, 100]

PadDicts ==
    { PyDict([k \in valid_keys |-> PyInt(f[k])]) : f \in [valid_keys -> 1..MaxPad] }

Made(S) == { r.v : r \in { m \in S : m.ok } }

\* The Cropper instances the constructor yields for these arguments.
Croppers ==
    Made({ Cropper__init__(PyInt(t[1]), PyInt(t[2]), PyInt(fp), pad, TRUE, p) :
             t \in Targets, fp \in FacePercents,
             pad \in PadDicts \cup {PyInt(k) : k \in 1..MaxPad},
             p \in BOOLEAN })

\* Instances that frame by face_percent 50 or 100 with portrait switched off.
PaddedCroppers ==
    { c \in Croppers : ~c.portrait /\ c.face_percent \in {50, 100} }

\* Instances built with a scalar padding.
ScalarCroppers ==
    Made({ Cropper__init__(PyInt(t[1]), PyInt(t[2]), PyInt(fp), PyInt(k), TRUE, p) :
             t \in Targets, fp \in FacePercents, k \in 1..MaxPad, p \in BOOLEAN })

\* Instances over a wider range of face_percent.
ExpandCroppers ==
    Made({ Cropper__init__(PyInt(t[1]), PyInt(t[2]), fp, PyInt(1), TRUE, p) :
             t \in Targets,
             fp \in {PyInt(1), PyInt(2), PyInt(50), PyInt(100)},
             p \in BOOLEAN })

\* An image extent and a face box lying inside it, as the detector reports.
Extents == (1..MaxImg) \X (1..MaxImg)     \* <<img_height, img_width>>
Boxes(img_height, img_width) ==
    { <<x, y, w, h>> \in (0..img_width) \X (0..img_height)
                         \X (1..img_width) \X (1..img_height) :
        x + w <= img_width /\ y + h <= img_height }

\* Images handed to crop(), and the detector's answers for them.
CropImages == {Unreadable, Array(2, 2), Array(1, 3)}
FaceLists(image) ==
    IF ~image.readable THEN {<<>>}
    ELSE UNION { [1..n -> Boxes(image.img_height, image.img_width)] :
                   n \in 0..MaxFaces }

\* Arguments tried on the constructor.
DimArgs == {PyInt(-1), PyInt(0), PyInt(1), PyInt(2), PyFloat(1, 2), PyNone}
FacePercentArgs ==
    {PyInt(0), PyInt(1), PyInt(50), PyInt(100), PyInt(101), PyFloat(1, 2)}
KeySets ==
    { valid_keys,
      valid_keys \ {"pad_left"},
      (valid_keys \ {"pad_left"}) \cup {"pad_x"},
      valid_keys \cup {"pad_x"} }
DictArgs ==
    UNION { { PyDict(f) : f \in [K -> {PyInt(0), PyInt(1)}] } : K \in KeySets }
PaddingArgs ==
    {PyNone, PyInt(-1), PyInt(0), PyInt(1), PyInt(2), PyFloat(3, 2), PyStr}
        \cup DictArgs

Idle == [op |-> "none"]

(***************************************************************************)
(* Operations.                                                             *)
(***************************************************************************)
\* Cropper(width, height, face_percent, padding, fix_gamma, portrait)
Construct ==
    /\ pc = "new"
    /\ \E width \in DimArgs, height \in DimArgs, face_percent \in FacePercentArgs,
          padding \in PaddingArgs, portrait \in BOOLEAN :
         LET r == Cropper__init__(width, height, face_percent, padding,
                                  TRUE, portrait)
         IN  /\ inp' = [op |-> "__init__", width |-> width, height |-> height,
                        face_percent |-> face_percent, padding |-> padding,
                        portrait |-> portrait]
             /\ out' = r
             /\ cropper' = IF r.ok THEN r.v ELSE NoCropper
             /\ pc' = IF r.ok THEN "ready" ELSE "failed"

\* A direct call of Cropper._crop_positions.
CallCropPositions ==
    /\ pc = "ready"
    /\ \E g \in Namespaces, e \in Extents :
         \E b \in Boxes(e[1], e[2]) :
            /\ inp' = [op |-> "_crop_positions", g |-> g,
                       img_height |-> e[1], img_width |-> e[2],
                       x |-> b[1], y |-> b[2], w |-> b[3], h |-> b[4]]
            /\ \E exact \in {_crop_positions(cropper, g, e[1], e[2],
                                             b[1], b[2], b[3], b[4])} :
                   \E r \in CanRound(exact) : out' = float_rounded(exact, r)
    /\ pc' = "done"
    /\ UNCHANGED cropper

\* A direct call of Cropper._expand_centered without expected_width.
CallExpandCentered ==
    /\ pc = "ready"
    /\ \E imgw \in 1..MaxImg, x \in 0..MaxImg, w \in 1..MaxImg :
         /\ x + w <= imgw
         /\ inp' = [op |-> "_expand_centered", x |-> x, w |-> w, imgw |-> imgw]
         /\ out' = _expand_centered(cropper, x, w, imgw, None)
    /\ pc' = "done"
    /\ UNCHANGED cropper

\* Cropper.crop(path_or_array)
CallCrop ==
    /\ pc = "ready"
    /\ \E g \in Namespaces, image \in CropImages :
         \E faces \in FaceLists(image) :
            /\ inp' = [op |-> "crop", g |-> g, image |-> image, faces |-> faces]
            /\ \E exact \in {crop(cropper, g, image, faces, Exact)} :
                   \E r \in CanRound(exact) :
                     out' = IF r = Exact THEN exact
                            ELSE crop(cropper, g, image, faces, r)
    /\ pc' = "done"
    /\ UNCHANGED cropper

\* The call is over; the instance can be used again.
Return ==
    /\ pc = "done"
    /\ pc' = "ready"
    /\ inp' = Idle
    /\ out' = Idle
    /\ UNCHANGED cropper

(***************************************************************************)
(* Specifications.                                                         *)
(***************************************************************************)
Constructed(S) ==
    /\ pc = "ready"
    /\ cropper \in S
    /\ inp = Idle
    /\ out = Idle

\* The geometry, on every instance.
Init == Constructed(Croppers)
Next == CallCropPositions \/ Return
Spec == Init /\ [][Next]_vars

\* The geometry of lines 433-477.
InitPadded == Constructed(PaddedCroppers)
SpecPadded == InitPadded /\ [][Next]_vars

\* The constructor.
InitNew ==
    /\ pc = "new"
    /\ cropper = NoCropper
    /\ inp = Idle
    /\ out = Idle
NextInit == Construct
SpecInit == InitNew /\ [][NextInit]_vars

\* crop().
InitCrop == Constructed(ScalarCroppers)
NextCrop == CallCrop \/ Return
SpecCrop == InitCrop /\ [][NextCrop]_vars

\* _expand_centered on its own.
InitExpand == Constructed(ExpandCroppers)
NextExpand == CallExpandCentered \/ Return
SpecExpand == InitExpand /\ [][NextExpand]_vars

(***************************************************************************)
(* Properties.                                                             *)
(***************************************************************************)
CropPositionsDone == pc = "done" /\ inp.op = "_crop_positions"
Returned == CropPositionsDone /\ out.ok

\* The floats of the call cannot differ from the exact arithmetic.
FloatExact == CanRound(out) = {Exact}

\* The returned list as crop() consumes it: rows pos[0]:pos[1], columns
\* pos[2]:pos[3].
Top == out.pos[1]
Bottom == out.pos[2]
Left == out.pos[3]
Right == out.pos[4]

\* C1. Containment: the rectangle _crop_positions returns for a valid image
\* extent and face box has 0 <= top < bottom <= img_height and
\* 0 <= left < right <= img_width.
C1_Containment ==
    (Returned /\ FloatExact) =>
        /\ 0 <= Top /\ Top < Bottom /\ Bottom <= inp.img_height
        /\ 0 <= Left /\ Left < Right /\ Right <= inp.img_width

\* width/height agrees with the target ratio once each side may be off by
\* one pixel.
WithinOnePixel(wd, ht, ratio) ==
    /\ RLe(I2R(wd - 1), RMul(ratio, I2R(ht + 1)))
    /\ RLe(RMul(ratio, I2R(ht - 1)), I2R(wd + 1))

\* C2. Aspect ratio: a rectangle returned in portrait or centered mode has
\* (right - left) / (bottom - top) equal to width / height of the target
\* within one pixel, unless both axes hit their overflow fallback.
C2_AspectRatio ==
    (Returned /\ FloatExact /\ ~(out.h_overflow /\ out.v_overflow)) =>
        WithinOnePixel(Right - Left, Bottom - Top, cropper.aspect_ratio)

\* C3. No face: with an empty list of boxes crop() returns None and never
\* calls _crop_positions; with a non-empty list it calls _crop_positions
\* exactly once, on the last box.
C3_NoFace ==
    (pc = "done" /\ inp.op = "crop" /\ inp.image.readable) =>
        IF Len(inp.faces) = 0
        THEN out.ok /\ out.value = "None" /\ out.calls = <<>>
        ELSE LET b == inp.faces[Len(inp.faces)]
             IN  out.calls = << <<inp.image.img_height, inp.image.img_width,
                                  b[1], b[2], b[3], b[4]>> >>

\* crop() ran on two different boxes and handed the second to the geometry.
C3_Witness ==
    /\ pc = "done" /\ inp.op = "crop"
    /\ Len(inp.faces) = 2 /\ inp.faces[1] # inp.faces[2]
    /\ Len(out.calls) = 1
    /\ out.calls[1][3] = inp.faces[2][1] /\ out.calls[1][5] = inp.faces[2][3]

\* C4. Mode selection: the padded strategy whenever padding is set;
\* otherwise the portrait strategy exactly when the portrait flag is true
\* and the output is tall (height > width); otherwise the centered one.
C4_ModeSelection ==
    (CropPositionsDone /\ inp.g # "unbound") =>
        out.mode = IF inp.g = "truthy" THEN "padded"
                   ELSE IF cropper.portrait /\ cropper.height > cropper.width
                        THEN "portrait"
                   ELSE "centered"

\* What the documentation calls a configuration error, and what it accepts.
IsPositive(v) == IsNum(v) /\ v.q.n > 0
IsNonPositive(v) == IsNum(v) /\ v.q.n <= 0
BadPadding(p) ==
    \/ p.t = "int" /\ IsNonPositive(p)
    \/ p.t = "dict" /\ \/ DOMAIN p.items # valid_keys
                       \/ \E k \in DOMAIN p.items : IsNonPositive(p.items[k])
GoodPadding(p) ==
    \/ p.t = "none"
    \/ p.t = "int" /\ IsPositive(p)
    \/ p.t = "dict" /\ DOMAIN p.items = valid_keys
                    /\ \A k \in valid_keys : IsPositive(p.items[k])
BadConfig(a) ==
    \/ IsNonPositive(a.width) \/ IsNonPositive(a.height)
    \/ IsNum(a.face_percent) /\ \/ a.face_percent.q.n <= 0
                                \/ RLt(I2R(100), a.face_percent.q)
    \/ BadPadding(a.padding)
GoodConfig(a) ==
    /\ IsPositive(a.width) /\ IsPositive(a.height)
    /\ IsPositive(a.face_percent) /\ RLe(a.face_percent.q, I2R(100))
    /\ GoodPadding(a.padding)

\* C5. Validation: the constructor raises for a non-positive width or
\* height, a face_percent outside (0, 100], a non-positive scalar padding or
\* a padding dict with the wrong keys or a non-positive value, and succeeds
\* for every well-formed configuration, padding left unset included.
C5_Validation ==
    (pc \in {"ready", "failed"} /\ inp.op = "__init__") =>
        /\ BadConfig(inp) => ~out.ok
        /\ GoodConfig(inp) => out.ok

\* The margins of the returned rectangle around the face box.
LeftMargin == inp.x - Left
RightMargin == Right - (inp.x + inp.w)
TopMargin == inp.y - Top
BottomMargin == Bottom - (inp.y + inp.h)

\* Margins a : b are in the ratio p : q up to the truncation of the two
\* edges: some edges within the truncated pixels give a * q = b * p.
InRatio(a, b, p, q) ==
    LET d == RSub(RMul(I2R(a), q), RMul(I2R(b), p))
    IN  RLe(I2R(0), d) /\ RLt(d, RAdd(p, q))

NoRawOverflow ==
    /\ RLe(I2R(0), out.raw.h1) /\ RLe(out.raw.h2, I2R(inp.img_width))
    /\ RLe(I2R(0), out.raw.v1) /\ RLe(out.raw.v2, I2R(inp.img_height))

PaddedDone == Returned /\ out.mode = "centered"

C7_Reconciliation ==
    (CropPositionsDone /\ out.mode = "portrait") =>
        /\ out.use_face_percent.w /\ out.use_face_percent.h
        /\ out.ok

\* C8. _expand_centered without expected_width, on a face span inside the
\* axis, returns lo and hi with 0 <= lo < hi <= imgw.
C8_ExpandRange ==
    (pc = "done" /\ inp.op = "_expand_centered") =>
        /\ out.ok
        /\ 0 <= out.lo /\ out.lo < out.hi /\ out.hi <= inp.imgw

Share(p, q) == RDiv(p, RAdd(p, q))

\* C9. Overflow shrink: when a raw edge overflows, each edge moves inward
\* by its axis' delta times its own weight's share of the axis' two weights.
C9_ProportionalShrink ==
    (PaddedDone /\ (out.h_overflow \/ out.v_overflow)) =>
        /\ out.moved.left =
             RMul(out.delta_h, Share(cropper.pad_left, cropper.pad_right))
        /\ out.moved.right =
             RMul(out.delta_h, Share(cropper.pad_right, cropper.pad_left))
        /\ out.moved.top =
             RMul(out.delta_v, Share(cropper.pad_top, cropper.pad_bottom))
        /\ out.moved.bottom =
             RMul(out.delta_v, Share(cropper.pad_bottom, cropper.pad_top))

\* C10. Order: every return path hands back [top, bottom, left, right]: the
\* vertical interval v1, v2 first, the horizontal interval h1, h2 last.
C10_ReturnOrder ==
    Returned => out.pos = <<out.v1, out.v2, out.h1, out.h2>>

====
